---- MODULE Spec2Model ----
(***************************************************************************)
(* The Book aggregate of bookmonk-be: BookService (createBook,             *)
(* getBookById, updateBook, deleteBook) over the catalog schema (Book,     *)
(* Author, Category, BookAuthor, BookCategory) with its unique indexes and *)
(* cascading foreign keys, and the HTTP outcome each call ends in.         *)
(*                                                                         *)
(* Every "await prisma..." of the service is one atomic step on the store; *)
(* requests of different clients interleave between their steps.  The      *)
(* fields of a request body are bound at the step whose store call first   *)
(* reads them (the body itself never changes while a request runs).        *)
(* Of the scalar columns, isbn and isbn13 (the unique ones) and            *)
(* stockQuantity (a plain one with a default) are kept; the other plain    *)
(* columns are written and read back the way stockQuantity is.  The        *)
(* timestamps the store maintains itself are not part of the model.        *)
(***************************************************************************)
EXTENDS Integers, Sequences, FiniteSets, TLC

\* Number of Book identifiers the store hands out in one run.
MaxBooks == 2

\* SQL NULL, which is also what an undefined JS field is stored as.
NULL == "NULL"
\* A key that is not present in updateData (<<>> for a key with a number).
Absent == "ABSENT"

\* Identifiers a request may name for authors and categories.
AuthorIds == {"a1", "a2"}
CategoryIds == {"c1", "c2", "c3"}
\* Identifiers a request may name for a book (allocated or not).
BookIds == 1..MaxBooks

\* Values a request body may carry.
IsbnValues == {NULL, "", "i1"}
Isbn13Values == {NULL, "j1"}
\* An optional number is a sequence of at most one number.
StockValues == {<<>>, <<5>>}
AuthorIdLists == {<<>>, <<"a1">>, <<"a1", "a2">>, <<"a2", "a1">>, <<"a1", "a1">>}
CategoryIdLists ==
    {<<>>, <<"c1">>, <<"c2", "c1">>, <<"c2", "c2">>, <<"c1", "c2", "c3">>, <<"c3", "c1", "c2">>}
\* authorIds and categoryIds of a creation body, as a pair.
Relations == AuthorIdLists \X CategoryIdLists
FewRelations == {<< <<>>, <<>> >>, << <<"a1">>, <<"c1">> >>}

VARIABLES
    Book,          \* rows of catalog."Book"
    Author,        \* ids of the rows of catalog."Author"
    Category,      \* ids of the rows of catalog."Category"
    BookAuthor,    \* rows of catalog."BookAuthor"
    BookCategory,  \* rows of catalog."BookCategory"
    nextId,        \* the next fresh Book id
    req,           \* per client: the request it is running and where it stands
    response,      \* the response most recently sent
    deleted        \* history: the ids whose deleteBook was answered with success

store == <<Book, Author, Category, BookAuthor, BookCategory>>
vars == <<Book, Author, Category, BookAuthor, BookCategory, nextId, req, response, deleted>>

Clients == DOMAIN req

Idle == [pc |-> "idle", id |-> 0, isbn |-> NULL, isbn13 |-> NULL]
NoBody == [id |-> 0]

----------------------------------------------------------------------------
(* The store *)

\* JS truthiness of an optional string field: undefined/null and "" are falsy.
Truthy(v) == v # NULL /\ v # ""

\* prisma.book.findUnique({ where: { id } })
FindUnique(id) == {b \in Book : b.id = id}

\* prisma.book.findFirst({ where: { OR: [isbn?, isbn13?] } })
FindFirstByIsbn(isbn, isbn13) ==
    {b \in Book : \/ (Truthy(isbn) /\ b.isbn = isbn)
                  \/ (Truthy(isbn13) /\ b.isbn13 = isbn13)}

\* A store without Book_pkey, Book_isbn_key and Book_isbn13_key: no write is
\* refused for a taken id, isbn or isbn13.
NoUniqueIndex(rows, b) == FALSE

\* Book_pkey / Book_isbn_key / Book_isbn13_key: would row `b` collide with one
\* of the other rows `rows`?  (a unique index never matches NULL against NULL)
UniqueViolation(rows, b) ==
    \E o \in rows : \/ o.id = b.id
                    \/ (b.isbn # NULL /\ o.isbn = b.isbn)
                    \/ (b.isbn13 # NULL /\ o.isbn13 = b.isbn13)

\* The first join row of a nested create that the store refuses: 0 when none.
\* A row is refused when it repeats the composite key of an earlier row, or when
\* it references a row of `table` that does not exist.
FirstRefused(ids, table) ==
    LET bad == {i \in DOMAIN ids : \/ ids[i] \notin table
                                   \/ \E j \in 1..(i - 1) : ids[j] = ids[i]}
    IN IF bad = {} THEN 0 ELSE CHOOSE i \in bad : \A k \in bad : i <= k

JoinError(ids, table) ==
    LET i == FirstRefused(ids, table)
    IN IF i = 0 THEN "none"
       ELSE IF \E j \in 1..(i - 1) : ids[j] = ids[i] THEN "P2002" ELSE "P2003"

\* authorOrder taken from the zero-based index of the map callback.
AuthorRowsZeroBased(bookId, authorIds) ==
    {[bookId |-> bookId, authorId |-> authorIds[i], authorOrder |-> i - 1] :
        i \in DOMAIN authorIds}

\* authors: { create: authorIds.map((authorId, index) => ({authorId, authorOrder: index + 1})) }
AuthorRows(bookId, authorIds) ==
    {[bookId |-> bookId, authorId |-> authorIds[i], authorOrder |-> i] : i \in DOMAIN authorIds}

\* isPrimary set on the last entry instead of the first.
CategoryRowsLastPrimary(bookId, categoryIds) ==
    {[bookId |-> bookId, categoryId |-> categoryIds[i],
      isPrimary |-> (i = Len(categoryIds))] : i \in DOMAIN categoryIds}

\* categories: { create: categoryIds.map((categoryId, index) => ({categoryId, isPrimary: index === 0})) }
CategoryRows(bookId, categoryIds) ==
    {[bookId |-> bookId, categoryId |-> categoryIds[i], isPrimary |-> (i = 1)] :
        i \in DOMAIN categoryIds}

Perms(S) ==
    {s \in [1..Cardinality(S) -> S] : \A i, j \in 1..Cardinality(S) : i # j => s[i] # s[j]}

\* include: { authors: { orderBy: { authorOrder: "asc" } } }: every order of the
\* book's rows that the ORDER BY admits.
IncludeAuthors(rows, bookId) ==
    {s \in Perms({r \in rows : r.bookId = bookId}) :
        \A i, j \in DOMAIN s : i < j => s[i].authorOrder <= s[j].authorOrder}

\* include: { categories: { orderBy: { isPrimary: "desc" } } }: rows with equal
\* isPrimary come in whatever order the store returns them.
IncludeCategories(rows, bookId) ==
    {s \in Perms({r \in rows : r.bookId = bookId}) :
        \A i, j \in DOMAIN s : i < j => (s[j].isPrimary => s[i].isPrimary)}

\* formatBookResponse(book)
FormatBookResponse(book, authors, categories) ==
    [id |-> book.id,
     isbn |-> book.isbn,
     isbn13 |-> book.isbn13,
     stockQuantity |-> book.stockQuantity,
     authors |-> [i \in DOMAIN authors |->
                    [id |-> authors[i].authorId, order |-> authors[i].authorOrder]],
     categories |-> [i \in DOMAIN categories |->
                    [id |-> categories[i].categoryId, isPrimary |-> categories[i].isPrimary]]]

\* errorHandler: statusCode = err.statusCode || 500, for the errors the
\* middleware, the service and the store raise.
StatusCode(err) ==
    CASE err = "ValidationError" -> 400
      [] err = "UnauthorizedError" -> 401
      [] err = "ForbiddenError" -> 403
      [] err = "NotFoundError" -> 404
      [] err = "ConflictError" -> 409
      [] OTHER -> 500

Failure(op, err) == [op |-> op, status |-> StatusCode(err), error |-> err, body |-> NoBody]
Success(op, status, body) == [op |-> op, status |-> status, error |-> "none", body |-> body]

----------------------------------------------------------------------------
\* Two clients on an empty catalog with one author and one category.
Init ==
    /\ Book = {}
    /\ Author = {"a1"}
    /\ Category = {"c1"}
    /\ BookAuthor = {}
    /\ BookCategory = {}
    /\ nextId = 1
    /\ req = [c \in {1, 2} |-> Idle]
    /\ response = [op |-> "none", status |-> 0, error |-> "none", body |-> NoBody]
    /\ deleted = {}

\* One client on a catalog with every author and category, whose earlier books
\* have all been deleted again: one Book id is left to hand out.
InitCatalog ==
    /\ Book = {}
    /\ Author = AuthorIds
    /\ Category = CategoryIds
    /\ BookAuthor = {}
    /\ BookCategory = {}
    /\ nextId = MaxBooks
    /\ req = [c \in {1} |-> Idle]
    /\ response = [op |-> "delete", status |-> 200, error |-> "none", body |-> NoBody]
    /\ deleted = 1..(MaxBooks - 1)

\* The store of Init with a single client: requests one after the other.
InitSerial ==
    /\ Book = {}
    /\ Author = {"a1"}
    /\ Category = {"c1"}
    /\ BookAuthor = {}
    /\ BookCategory = {}
    /\ nextId = 1
    /\ req = [c \in {1} |-> Idle]
    /\ response = [op |-> "none", status |-> 0, error |-> "none", body |-> NoBody]
    /\ deleted = {}

----------------------------------------------------------------------------
(* createBook *)

\* Lines 39-53: the duplicate pre-check.  A hit answers 409 at once; otherwise
\* the request goes on to the insert.
CreateBookCheck(c, isbn, isbn13) ==
    /\ req[c].pc = "idle"
    /\ nextId + Cardinality({d \in Clients : req[d].pc = "create"}) <= MaxBooks
    /\ IF (Truthy(isbn) \/ Truthy(isbn13)) /\ FindFirstByIsbn(isbn, isbn13) # {}
       THEN /\ response' = Failure("create", "ConflictError")
            /\ UNCHANGED <<store, nextId, req, deleted>>
       ELSE /\ req' = [req EXCEPT ![c] = [pc |-> "create", id |-> 0,
                                          isbn |-> isbn, isbn13 |-> isbn13]]
            /\ UNCHANGED <<store, nextId, response, deleted>>

\* The error of prisma.book.create for this body, "none" when the store takes
\* every row: the Book row first, then its BookAuthor and BookCategory rows.
CreateError(book, authorIds, categoryIds) ==
    IF UniqueViolation(Book, book) THEN "P2002"
    ELSE IF JoinError(authorIds, Author) # "none" THEN JoinError(authorIds, Author)
    ELSE JoinError(categoryIds, Category)

\* The nested create written as separate statements outside a transaction: the
\* Book row stays when a join row is refused.
RefusedCreateKeepsBook(book, authorIds, categoryIds) ==
    /\ Book' = Book \cup {book}
    /\ nextId' = nextId + 1
    /\ UNCHANGED <<Author, Category, BookAuthor, BookCategory>>

\* What a refused prisma.book.create leaves behind: the nested write is one
\* transaction, so nothing.
RefusedCreate(book, authorIds, categoryIds) ==
    UNCHANGED <<store, nextId>>

\* Lines 55-110: prisma.book.create with its nested relation rows, read back
\* with include/orderBy and shaped.
CreateBookInsert(c, stock, authorIds, categoryIds) ==
    /\ req[c].pc = "create"
    /\ LET book == [id |-> nextId, isbn |-> req[c].isbn, isbn13 |-> req[c].isbn13,
                    stockQuantity |-> IF stock = <<>> THEN 0 ELSE stock[1],
                    averageRating |-> 0, ratingsCount |-> 0]
           err == CreateError(book, authorIds, categoryIds)
       IN IF err # "none"
          THEN /\ RefusedCreate(book, authorIds, categoryIds)
               /\ response' = Failure("create", err)
          ELSE /\ Book' = Book \cup {book}
               /\ BookAuthor' = BookAuthor \cup AuthorRows(nextId, authorIds)
               /\ BookCategory' = BookCategory \cup CategoryRows(nextId, categoryIds)
               /\ nextId' = nextId + 1
               /\ UNCHANGED <<Author, Category>>
               /\ \E as \in IncludeAuthors(BookAuthor', nextId),
                     cs \in IncludeCategories(BookCategory', nextId) :
                     response' = Success("create", 201, FormatBookResponse(book, as, cs))
    /\ req' = [req EXCEPT ![c] = Idle]
    /\ UNCHANGED deleted

----------------------------------------------------------------------------
(* getBookById *)

\* Lines 194-214.
GetBookById(c, id) ==
    /\ req[c].pc = "idle"
    /\ IF FindUnique(id) = {}
       THEN response' = Failure("get", "NotFoundError")
       ELSE \E book \in FindUnique(id), as \in IncludeAuthors(BookAuthor, id),
               cs \in IncludeCategories(BookCategory, id) :
               response' = Success("get", 200, FormatBookResponse(book, as, cs))
    /\ UNCHANGED <<store, nextId, req, deleted>>

----------------------------------------------------------------------------
(* updateBook *)

\* The bodies of an update request: any of the keys isbn, isbn13 and
\* stockQuantity, with or without the two relation keys; or the key id, with or
\* without stockQuantity.  No route filters the keys of the body.  These
\* bodies carry neither averageRating nor ratingsCount (<<>>).
UpdateData ==
    {d \in [id : {<<>>} \cup {<<i>> : i \in BookIds},
            isbn : {Absent, "", "i1"}, isbn13 : {Absent, "j1"},
            stockQuantity : {<<>>, <<5>>},
            authorIds : {Absent, <<"a2">>}, categoryIds : {Absent, <<"c3">>},
            averageRating : {<<>>}, ratingsCount : {<<>>}] :
        /\ (d.authorIds = Absent) <=> (d.categoryIds = Absent)
        /\ d.id # <<>> =>
              d.isbn = Absent /\ d.isbn13 = Absent /\ d.authorIds = Absent}

\* An update that goes to prisma.book.update without looking the row up first.
UpdateBookNoCheck(c, id) ==
    /\ req[c].pc = "idle"
    /\ req' = [req EXCEPT ![c] = [pc |-> "update", id |-> id,
                                  isbn |-> NULL, isbn13 |-> NULL]]
    /\ UNCHANGED <<store, nextId, response, deleted>>

\* Lines 223-227: the existence check.
UpdateBookCheck(c, id) ==
    /\ req[c].pc = "idle"
    /\ IF FindUnique(id) = {}
       THEN /\ response' = Failure("update", "NotFoundError")
            /\ UNCHANGED req
       ELSE /\ req' = [req EXCEPT ![c] = [pc |-> "update", id |-> id,
                                          isbn |-> NULL, isbn13 |-> NULL]]
            /\ UNCHANGED response
    /\ UNCHANGED <<store, nextId, deleted>>

\* An update that writes the whole row from the body: a key the body does not
\* carry falls back to its column default.
ReplaceRow(book, data) ==
    [id |-> IF data.id = <<>> THEN book.id ELSE data.id[1],
     isbn |-> IF data.isbn = Absent THEN NULL ELSE data.isbn,
     isbn13 |-> IF data.isbn13 = Absent THEN NULL ELSE data.isbn13,
     stockQuantity |-> IF data.stockQuantity = <<>> THEN 0 ELSE data.stockQuantity[1],
     averageRating |-> IF data.averageRating = <<>> THEN 0 ELSE data.averageRating[1],
     ratingsCount |-> IF data.ratingsCount = <<>> THEN 0 ELSE data.ratingsCount[1]]

\* Line 229 and line 239: authorIds and categoryIds are taken out of updateData
\* and every remaining key is written to the row, the key id like any other.
ApplyData(book, data) ==
    [id |-> IF data.id = <<>> THEN book.id ELSE data.id[1],
     isbn |-> IF data.isbn = Absent THEN book.isbn ELSE data.isbn,
     isbn13 |-> IF data.isbn13 = Absent THEN book.isbn13 ELSE data.isbn13,
     stockQuantity |-> IF data.stockQuantity = <<>> THEN book.stockQuantity
                       ELSE data.stockQuantity[1],
     averageRating |-> IF data.averageRating = <<>> THEN book.averageRating
                       ELSE data.averageRating[1],
     ratingsCount |-> IF data.ratingsCount = <<>> THEN book.ratingsCount
                      ELSE data.ratingsCount[1]]

\* BookAuthor_bookId_fkey and BookCategory_bookId_fkey ON UPDATE CASCADE: the
\* join rows of a Book whose id is rewritten follow it.
CascadeBookId(rows, oldId, newId) ==
    {IF r.bookId = oldId THEN [r EXCEPT !.bookId = newId] ELSE r : r \in rows}

\* Lines 229-252: prisma.book.update and the shaped result.  P2025 is the
\* store's "record to update not found".
UpdateBookWrite(c, data) ==
    /\ req[c].pc = "update"
    /\ LET id == req[c].id
       IN IF FindUnique(id) = {}
          THEN /\ response' = Failure("update", "P2025")
               /\ UNCHANGED store
          ELSE \E old \in FindUnique(id) :
                 LET new == ApplyData(old, data)
                 IN IF UniqueViolation(Book \ {old}, new)
                    THEN /\ response' = Failure("update", "P2002")
                         /\ UNCHANGED store
                    ELSE /\ Book' = (Book \ {old}) \cup {new}
                         /\ BookAuthor' = CascadeBookId(BookAuthor, id, new.id)
                         /\ BookCategory' = CascadeBookId(BookCategory, id, new.id)
                         /\ UNCHANGED <<Author, Category>>
                         /\ \E as \in IncludeAuthors(BookAuthor', new.id),
                               cs \in IncludeCategories(BookCategory', new.id) :
                               response' = Success("update", 200,
                                                   FormatBookResponse(new, as, cs))
    /\ req' = [req EXCEPT ![c] = Idle]
    /\ UNCHANGED <<nextId, deleted>>

----------------------------------------------------------------------------
(* deleteBook *)

\* Lines 261-264: the existence check.
DeleteBookCheck(c, id) ==
    /\ req[c].pc = "idle"
    /\ IF FindUnique(id) = {}
       THEN /\ response' = Failure("delete", "NotFoundError")
            /\ UNCHANGED req
       ELSE /\ req' = [req EXCEPT ![c] = [pc |-> "delete", id |-> id,
                                          isbn |-> NULL, isbn13 |-> NULL]]
            /\ UNCHANGED response
    /\ UNCHANGED <<store, nextId, deleted>>

\* DELETE FROM "Book" WHERE id = ..., with BookAuthor_bookId_fkey and
\* BookCategory_bookId_fkey ON DELETE CASCADE.
DeleteBookRows(id) ==
    /\ Book' = {b \in Book : b.id # id}
    /\ BookAuthor' = {r \in BookAuthor : r.bookId # id}
    /\ BookCategory' = {r \in BookCategory : r.bookId # id}
    /\ UNCHANGED <<Author, Category>>

\* Line 266: prisma.book.delete.  P2025 is the store's "record to delete does
\* not exist".
DeleteBookWrite(c) ==
    /\ req[c].pc = "delete"
    /\ LET id == req[c].id
       IN IF FindUnique(id) = {}
          THEN /\ response' = Failure("delete", "P2025")
               /\ UNCHANGED <<store, deleted>>
          ELSE /\ DeleteBookRows(id)
               /\ response' = Success("delete", 200, NoBody)
               /\ deleted' = deleted \cup {id}
    /\ req' = [req EXCEPT ![c] = Idle]
    /\ UNCHANGED nextId

----------------------------------------------------------------------------
(* Author and Category rows leave the store through their own endpoints; the
   schema decides what that does to the join rows. *)

\* BookAuthor_authorId_fkey without ON DELETE CASCADE and not enforced.
DeleteAuthorNoCascade(a) ==
    /\ a \in Author
    /\ Author' = Author \ {a}
    /\ response' = Success("deleteAuthor", 200, NoBody)
    /\ UNCHANGED <<Book, Category, BookAuthor, BookCategory, nextId, req, deleted>>

\* BookAuthor_authorId_fkey ON DELETE CASCADE
DeleteAuthor(a) ==
    /\ a \in Author
    /\ Author' = Author \ {a}
    /\ BookAuthor' = {r \in BookAuthor : r.authorId # a}
    /\ response' = Success("deleteAuthor", 200, NoBody)
    /\ UNCHANGED <<Book, Category, BookCategory, nextId, req, deleted>>

\* BookCategory_categoryId_fkey ON DELETE CASCADE
DeleteCategory(k) ==
    /\ k \in Category
    /\ Category' = Category \ {k}
    /\ BookCategory' = {r \in BookCategory : r.categoryId # k}
    /\ response' = Success("deleteCategory", 200, NoBody)
    /\ UNCHANGED <<Book, Author, BookAuthor, nextId, req, deleted>>

----------------------------------------------------------------------------
\* One step of one request, its body drawn from the given values.
Step(isbns, isbn13s, relations) ==
    \/ \E c \in Clients, isbn \in isbns, isbn13 \in isbn13s :
          CreateBookCheck(c, isbn, isbn13)
    \/ \E c \in Clients, stock \in StockValues, rel \in relations :
          CreateBookInsert(c, stock, rel[1], rel[2])
    \/ \E c \in Clients, id \in BookIds : GetBookById(c, id)
    \/ \E c \in Clients, id \in BookIds : UpdateBookCheck(c, id)
    \/ \E c \in Clients, data \in UpdateData :
          (IF data.id = <<>> THEN TRUE ELSE data.id[1] < nextId) /\ UpdateBookWrite(c, data)
    \/ \E c \in Clients, id \in BookIds : DeleteBookCheck(c, id)
    \/ \E c \in Clients : DeleteBookWrite(c)
    \/ \E a \in AuthorIds : DeleteAuthor(a)
    \/ \E k \in CategoryIds : DeleteCategory(k)

\* Concurrent requests over every ISBN value and few relations.
Next == Step(IsbnValues, Isbn13Values, FewRelations)

Spec == Init /\ [][Next]_vars

\* The same requests, one after the other.
SpecSerial == InitSerial /\ [][Next]_vars

\* Requests one after the other, without ISBNs and over every relation list.
NextCatalog == Step({NULL}, {NULL}, Relations)

SpecCatalog == InitCatalog /\ [][NextCatalog]_vars

----------------------------------------------------------------------------
(* The book router: authenticateToken, requireAdmin, then the controller *)

\* The Authorization header of a request: absent, not of the form
\* "Bearer <token>", or a bearer token that jwt.verify rejects (bad signature,
\* expired) or accepts; `role` is the role claim the token carries.
Headers ==
    {[kind |-> k, role |-> NULL] : k \in {"absent", "malformed"}}
        \cup [kind : {"invalid", "expired", "valid"}, role : {NULL, "user", "admin"}]

\* A middleware that reads the claims of the token without verifying it.
DecodeToken(h) ==
    IF h.kind \in {"absent", "malformed"} THEN "UnauthorizedError" ELSE "next"

\* authenticateToken: the error handed to next(), or "next".
AuthenticateToken(h) ==
    IF h.kind = "valid" THEN "next" ELSE "UnauthorizedError"

\* requireRole(allowedRoles), for the req.user that authenticateToken attached.
RequireRole(h, allowedRoles) ==
    IF h.role = NULL \/ h.role \notin allowedRoles THEN "ForbiddenError" ELSE "next"

RequireAdmin(h) == RequireRole(h, {"admin"})

\* router.use(authenticateToken()); router.use(requireAdmin); then the route's
\* handler.  The middleware and the controller up to its first await run in
\* one step.
Router(c, h, op, Controller) ==
    /\ req[c].pc = "idle"
    /\ IF AuthenticateToken(h) # "next"
       THEN /\ response' = Failure(op, AuthenticateToken(h))
            /\ UNCHANGED <<store, nextId, req, deleted>>
       ELSE IF RequireAdmin(h) # "next"
       THEN /\ response' = Failure(op, RequireAdmin(h))
            /\ UNCHANGED <<store, nextId, req, deleted>>
       ELSE Controller

\* The rules of createBookValidation and updateBookValidation on isbn and
\* isbn13: the fields whose value does not match the pattern.  "i1" stands for
\* a well-formed ISBN, "j1" for 13 digits; "" and "123" match neither.
BookValidationErrors(isbn, isbn13) ==
    {f \in {"isbn"} : isbn \notin {NULL, Absent, "i1"}}
        \cup {f \in {"isbn13"} : isbn13 \notin {NULL, Absent, "j1"}}

\* validate: ValidationError when a rule has failed, else on to the next
\* handler.  No route of the book router mounts it.
Validate(errors) == IF errors # {} THEN "ValidationError" ELSE "next"

PostBook(c, h, isbn, isbn13) == Router(c, h, "create", CreateBookCheck(c, isbn, isbn13))
GetBook(c, h, id) == Router(c, h, "get", GetBookById(c, id))
PutBook(c, h, id) == Router(c, h, "update", UpdateBookCheck(c, id))
DeleteBook(c, h, id) == Router(c, h, "delete", DeleteBookCheck(c, id))

NextRoutes ==
    \/ \E c \in Clients, h \in Headers, isbn \in {NULL, "i1"}, isbn13 \in {NULL, "123"} :
          PostBook(c, h, isbn, isbn13)
    \/ \E c \in Clients, stock \in {<<>>}, rel \in {<<<<"a1">>, <<"c1">>>>} :
          CreateBookInsert(c, stock, rel[1], rel[2])
    \/ \E c \in Clients, h \in Headers, id \in BookIds : GetBook(c, h, id)
    \/ \E c \in Clients, h \in Headers, id \in BookIds : PutBook(c, h, id)
    \/ \E c \in Clients, data \in UpdateData :
          (IF data.id = <<>> THEN TRUE ELSE data.id[1] < nextId) /\ UpdateBookWrite(c, data)
    \/ \E c \in Clients, h \in Headers, id \in BookIds : DeleteBook(c, h, id)
    \/ \E c \in Clients : DeleteBookWrite(c)

\* One client sending requests through the router.
SpecRoutes == InitSerial /\ [][NextRoutes]_vars

----------------------------------------------------------------------------
(* getBooks: the pagination block *)

\* page = 1 and limit = 20 of the destructuring of getBooks.
DefaultPage == 1
DefaultLimit == 20
\* Largest limit the listing rule set lets through.
MaxLimit == 100

\* Largest page and largest count the pagination block is applied to.
MaxPage == 4
MaxTotal == 46
Pages == 1..MaxPage
Limits == {1, 2, 3, 7, DefaultLimit, MaxLimit}
Totals == 0..MaxTotal

\* Integer division rounded down instead of up.
QuotientRoundedDown(total, limit) == total \div limit

\* Math.ceil(total / limit) for total >= 0 and limit > 0.
CeilOfQuotient(total, limit) ==
    IF total % limit = 0 THEN total \div limit ELSE (total \div limit) + 1

\* Lines 176-185: the pagination object of the result.
Pagination(page, limit, total) ==
    [page |-> page, limit |-> limit, total |-> total,
     totalPages |-> CeilOfQuotient(total, limit),
     hasNext |-> (page * limit < total),
     hasPrev |-> (page > 1)]

\* The pagination block applied to a page, a limit and the count of the store.
GetBooksPagination(page, limit, total) ==
    /\ response' = Success("pagination", 200, Pagination(page, limit, total))
    /\ UNCHANGED <<store, nextId, req, deleted>>

NextPagination ==
    \E page \in Pages, limit \in Limits, total \in Totals :
        GetBooksPagination(page, limit, total)

SpecPagination == InitSerial /\ [][NextPagination]_vars

----------------------------------------------------------------------------
(* GET /books: BookController.list and BookService.getBooks *)

\* Number of books of the catalog that is listed.
MaxListed == 3

\* A title is a sequence of characters.
Lower(ch) == CASE ch = "A" -> "a" [] ch = "B" -> "b" [] OTHER -> ch

\* The rows of the listed catalog, with the columns getBooks filters and
\* orders by.  createdAt is not in the order of the ids, and two rows share one.
ListedBook(i) ==
    [id |-> i, isbn |-> NULL, isbn13 |-> NULL, stockQuantity |-> 0,
     averageRating |-> 0, ratingsCount |-> 0,
     title |-> CASE i = 1 -> <<"A", "b">> [] i = 2 -> <<"b">> [] i = 3 -> <<"a">>
                 [] OTHER -> <<"B", "a">>,
     format |-> IF i % 2 = 1 THEN "EBOOK" ELSE "PAPERBACK",
     isActive |-> (i # 3),
     createdAt |-> CASE i = 1 -> 2 [] i = 2 -> 3 [] i = 3 -> 2 [] OTHER -> i]

\* A value of req.query: the key is absent, holds text that is no number, or
\* holds the decimal digits of n.
QueryAbsent == [kind |-> "absent", n |-> 0]
QueryText == [kind |-> "text", n |-> 0]
QueryInt(n) == [kind |-> "int", n |-> n]

\* The query strings sent: pagination keys in and out of the bounds of the
\* listing rule set, and the filters.
Queries ==
    {[page |-> pl[1], limit |-> pl[2], search |-> <<>>, format |-> NULL, isActive |-> Absent] :
        pl \in {<<QueryAbsent, QueryAbsent>>, <<QueryText, QueryInt(0)>>,
                <<QueryInt(0), QueryInt(MaxLimit + 1)>>, <<QueryInt(1), QueryInt(1)>>,
                <<QueryInt(2), QueryInt(1)>>, <<QueryInt(1), QueryInt(2)>>,
                <<QueryInt(2), QueryInt(2)>>}}
    \cup
    {[page |-> QueryInt(p), limit |-> QueryInt(2), search |-> f[1], format |-> f[2],
      isActive |-> f[3]] :
        p \in {1, 2},
        f \in {<< <<"a">>, NULL, Absent >>, << <<"B">>, NULL, "true" >>,
               << <<>>, "EBOOK", Absent >>, << <<>>, NULL, "false" >>,
               << <<>>, NULL, "yes" >>}}

\* parseInt(value, 10): <<>> is NaN.
ParseInt(v) == IF v.kind = "int" THEN <<v.n>> ELSE <<>>

\* parseInt(value, 10) || fallback: NaN and 0 are falsy.
OrDefault(parsed, fallback) ==
    IF parsed = <<>> THEN fallback
    ELSE IF parsed[1] = 0 THEN fallback ELSE parsed[1]

\* BookController.list, lines 23-32: the options handed to getBooks.  A flag
\* that is neither "true" nor "false" is undefined, here <<>>.
ListOptions(q) ==
    [page |-> OrDefault(ParseInt(q.page), DefaultPage),
     limit |-> OrDefault(ParseInt(q.limit), DefaultLimit),
     search |-> q.search,
     format |-> q.format,
     isActive |-> IF q.isActive = "true" THEN <<TRUE>>
                  ELSE IF q.isActive = "false" THEN <<FALSE>> ELSE <<>>]

\* title: { contains: search, mode: "insensitive" }
Contains(title, search) ==
    \E k \in 0..(Len(title) - Len(search)) :
        \A j \in 1..Len(search) : Lower(title[k + j]) = Lower(search[j])

\* Lines 136-153: the where clause.  An empty search and an undefined format
\* or flag add no condition.
Where(b, o) ==
    /\ o.search # <<>> => Contains(b.title, o.search)
    /\ Truthy(o.format) => b.format = o.format
    /\ o.isActive # <<>> => b.isActive = o.isActive[1]

\* The rows skip + 1 .. skip + take of s.
Slice(s, skip, take) ==
    LET n == IF Len(s) - skip < 0 THEN 0
             ELSE IF Len(s) - skip < take THEN Len(s) - skip ELSE take
    IN [i \in 1..n |-> s[skip + i]]

\* A findMany that orders by createdAt ascending.
FindManyOldestFirst(rows, o) ==
    {Slice(s, (o.page - 1) * o.limit, o.limit) :
        s \in {p \in Perms({b \in rows : Where(b, o)}) :
                 \A i, j \in DOMAIN p : i < j => p[i].createdAt <= p[j].createdAt}}

\* prisma.book.findMany({ where, skip, take: limit, orderBy: { createdAt:
\* "desc" } }): every result the ORDER BY admits (rows with one createdAt come
\* in whatever order the store returns them).
FindMany(rows, o) ==
    {Slice(s, (o.page - 1) * o.limit, o.limit) :
        s \in {p \in Perms({b \in rows : Where(b, o)}) :
                 \A i, j \in DOMAIN p : i < j => p[i].createdAt >= p[j].createdAt}}

\* prisma.book.count({ where })
Count(rows, o) == Cardinality({b \in rows : Where(b, o)})

\* books.map((book) => this.formatBookResponse(book)), each book with its
\* included relation rows.
Formats(b) ==
    {FormatBookResponse(b, as, cs) : as \in IncludeAuthors(BookAuthor, b.id),
                                     cs \in IncludeCategories(BookCategory, b.id)}

FormattedBooks(r) ==
    {f \in [1..Len(r) -> UNION {Formats(r[i]) : i \in 1..Len(r)}] :
        \A i \in 1..Len(r) : f[i] \in Formats(r[i])}

\* Lines 156-174: Promise.all issues findMany and count; the store runs one of
\* them first.  `seen` is history: the Book rows when the first one ran.
GetBooksFirst(c, o, first) ==
    /\ \E r \in FindMany(Book, o) : \E f \in FormattedBooks(r) :
          req' = [req EXCEPT ![c] =
                    [pc |-> "list", opts |-> o, first |-> first,
                     books |-> IF first = "find" THEN f ELSE <<>>,
                     total |-> IF first = "count" THEN Count(Book, o) ELSE 0,
                     seen |-> Book]]
    /\ UNCHANGED <<store, nextId, response, deleted>>

\* The other query runs, and lines 176-186 build the result.
GetBooksSecond(c) ==
    /\ req[c].pc = "list"
    /\ LET o == req[c].opts
           total == IF req[c].first = "count" THEN req[c].total ELSE Count(Book, o)
       IN \E r \in FindMany(Book, o) : \E f \in FormattedBooks(r) :
             response' = Success("list", 200,
                            [books |-> IF req[c].first = "find" THEN req[c].books ELSE f,
                             pagination |-> Pagination(o.page, o.limit, total)])
    /\ req' = [req EXCEPT ![c] = Idle]
    /\ UNCHANGED <<store, nextId, deleted>>

\* router.get("/"): no validation rule set is mounted in front of the
\* controller.
ListBooks(c, h, q, first) == Router(c, h, "list", GetBooksFirst(c, ListOptions(q), first))

\* A deleteBook served by another process removes its row.
OtherDelete(id) ==
    /\ FindUnique(id) # {}
    /\ DeleteBookRows(id)
    /\ UNCHANGED <<nextId, req, response, deleted>>

InitList ==
    /\ Book = {ListedBook(i) : i \in 1..MaxListed}
    /\ Author = AuthorIds
    /\ Category = CategoryIds
    /\ BookAuthor = {}
    /\ BookCategory = {}
    /\ nextId = MaxListed + 1
    /\ req = [c \in {1} |-> Idle]
    /\ response = [op |-> "none", status |-> 0, error |-> "none", body |-> NoBody]
    /\ deleted = {}

NextList ==
    \/ \E c \in Clients, h \in Headers, q \in Queries, first \in {"find", "count"} :
          ListBooks(c, h, q, first)
    \/ \E c \in Clients : GetBooksSecond(c)
    \/ \E id \in 1..MaxListed : OtherDelete(id)

\* One client listing a catalog from which another process deletes books.
SpecList == InitList /\ [][NextList]_vars

----------------------------------------------------------------------------
(* Properties *)

RowsOfBook(rows, id) == {r \in rows : r.bookId = id}

\* A Book row holds this isbn, or this isbn13 (NULL is no value).
IsbnTaken(isbn, isbn13) ==
    \E b \in Book : \/ (isbn # NULL /\ b.isbn = isbn)
                    \/ (isbn13 # NULL /\ b.isbn13 = isbn13)

\* C1: in every reachable state, whatever the interleaving of creates, updates
\* and deletes, no two distinct Book rows have the same non-null isbn and no
\* two have the same non-null isbn13.
C1_IsbnUnique ==
    \A b1, b2 \in Book : b1 # b2 =>
        /\ b1.id # b2.id
        /\ (b1.isbn # NULL => b1.isbn # b2.isbn)
        /\ (b1.isbn13 # NULL => b1.isbn13 # b2.isbn13)

\* Two creates with isbn "i1" both passed the pre-check; the store kept one row
\* and refused the other insert.
C1_Witness ==
    /\ response.op = "create" /\ response.error = "P2002"
    /\ Cardinality(Book) = 1
    /\ \A b \in Book : b.isbn = "i1" /\ b.isbn13 = NULL

\* C2: a createBook whose body carries an isbn that an existing Book has, or an
\* isbn13 that an existing Book has, ends in ConflictError (409) and leaves the
\* store as it was.
C2_DuplicateCreateConflicts ==
    [][\A c \in Clients, isbn \in IsbnValues, isbn13 \in Isbn13Values :
         (CreateBookCheck(c, isbn, isbn13) /\ IsbnTaken(isbn, isbn13)) =>
            /\ response' = Failure("create", "ConflictError")
            /\ response'.status = 409
            /\ req'[c].pc = "idle"
            /\ store' = store]_vars

\* The client's create has passed the pre-check, and a Book with its isbn or
\* isbn13 has been inserted since.
RaceLost(c) ==
    /\ req[c].pc = "create"
    /\ FindFirstByIsbn(req[c].isbn, req[c].isbn13) # {}

\* C3: of two concurrent creates with the same isbn (or isbn13) that both pass
\* the pre-check, the one whose insert comes second is answered 409 Conflict and
\* inserts nothing.
C3_RaceLoserGetsConflict ==
    [][\A c \in Clients, stock \in StockValues, rel \in FewRelations :
         (CreateBookInsert(c, stock, rel[1], rel[2]) /\ RaceLost(c)) =>
            /\ response'.status = 409
            /\ response'.error = "ConflictError"
            /\ store' = store]_vars

\* The store refuses one of the join rows of these lists.
JoinFails(authorIds, categoryIds) ==
    \/ \E i \in DOMAIN authorIds :
          authorIds[i] \notin Author \/ \E j \in DOMAIN authorIds : j # i /\ authorIds[j] = authorIds[i]
    \/ \E i \in DOMAIN categoryIds :
          categoryIds[i] \notin Category
          \/ \E j \in DOMAIN categoryIds : j # i /\ categoryIds[j] = categoryIds[i]

\* C4: after a createBook either the Book row exists with one BookAuthor row per
\* authorIds entry and one BookCategory row per categoryIds entry, or none of
\* them exists; when a join row is refused (unknown or repeated identifier),
\* none exists.
C4_CreateAtomic ==
    [][\A c \in Clients : req[c].pc = "create" =>
        \A stock \in StockValues, rel \in Relations :
         CreateBookInsert(c, stock, rel[1], rel[2]) =>
            LET id == nextId
                whole == /\ \E b \in Book' : b.id = id
                         /\ Cardinality(RowsOfBook(BookAuthor', id)) = Len(rel[1])
                         /\ Cardinality(RowsOfBook(BookCategory', id)) = Len(rel[2])
                nothing == /\ ~ \E b \in Book' : b.id = id
                           /\ RowsOfBook(BookAuthor', id) = {}
                           /\ RowsOfBook(BookCategory', id) = {}
            IN /\ whole \/ nothing
               /\ JoinFails(rel[1], rel[2]) => nothing /\ response'.error # "none"]_vars

\* A create whose join rows were refused was answered, and the store is empty.
C4_Witness ==
    /\ response.op = "create" /\ response.error \in {"P2002", "P2003"}
    /\ Book = {} /\ BookAuthor = {} /\ BookCategory = {}

\* C5: a successful createBook with authorIds = [a1..aN] leaves exactly N
\* BookAuthor rows for the book, the row of ai with authorOrder = i, and returns
\* authors = [a1..aN] in input order with order 1..N.
C5_AuthorOrder ==
    [][\A c \in Clients : req[c].pc = "create" =>
        \A stock \in StockValues, rel \in Relations :
         (CreateBookInsert(c, stock, rel[1], rel[2]) /\ response'.error = "none") =>
            LET id == nextId
                a == rel[1]
            IN /\ Cardinality(RowsOfBook(BookAuthor', id)) = Len(a)
               /\ \A i \in 1..Len(a) :
                     [bookId |-> id, authorId |-> a[i], authorOrder |-> i] \in BookAuthor'
               /\ response'.body.authors = [i \in 1..Len(a) |-> [id |-> a[i], order |-> i]]]_vars

\* authorIds = [a2, a1] was created and answered.
C5_Witness ==
    /\ response.op = "create" /\ response.status = 201
    /\ response.body.authors = <<[id |-> "a2", order |-> 1], [id |-> "a1", order |-> 2]>>

\* C6: a successful createBook with a non-empty categoryIds leaves the row of
\* the first identifier with isPrimary = TRUE and every other row with
\* isPrimary = FALSE, and returns the primary category first.
C6_PrimaryCategory ==
    [][\A c \in Clients : req[c].pc = "create" =>
        \A stock \in StockValues, rel \in Relations :
         (CreateBookInsert(c, stock, rel[1], rel[2]) /\ response'.error = "none"
            /\ rel[2] # <<>>) =>
            LET id == nextId
                k == rel[2]
            IN /\ \A i \in 1..Len(k) :
                     [bookId |-> id, categoryId |-> k[i], isPrimary |-> (i = 1)] \in BookCategory'
               /\ \A r \in RowsOfBook(BookCategory', id) : r.isPrimary <=> r.categoryId = k[1]
               /\ response'.body.categories[1] = [id |-> k[1], isPrimary |-> TRUE]
               /\ \A i \in 2..Len(k) : ~ response'.body.categories[i].isPrimary]_vars

\* categoryIds = [c3, c1, c2] was created and answered.
C6_Witness ==
    /\ response.op = "create" /\ response.status = 201
    /\ Len(response.body.categories) = 3
    /\ response.body.categories[1] = [id |-> "c3", isPrimary |-> TRUE]

\* C7: a getBookById(id) that directly follows the successful createBook that
\* returned id returns the same shaped book, relation arrays and their order
\* included.
C7_CreateGetRoundTrip ==
    [][\A c \in Clients, id \in BookIds :
         (GetBookById(c, id) /\ response.op = "create" /\ response.status = 201
            /\ response.body.id = id) =>
            response'.body = response.body]_vars

\* C8: once deleteBook(id) has succeeded, every later getBookById(id) and
\* deleteBook(id) ends in NotFoundError, the later delete changes nothing, and no
\* Book has that id again.
C8_DeletedStaysDeleted ==
    [][/\ \A id \in deleted' : ~ \E b \in Book' : b.id = id
       /\ \A c \in Clients, id \in deleted :
            /\ GetBookById(c, id) => response' = Failure("get", "NotFoundError")
            /\ DeleteBookCheck(c, id) =>
                  /\ response' = Failure("delete", "NotFoundError")
                  /\ response'.status = 404
                  /\ req'[c].pc = "idle"
                  /\ store' = store]_vars

RefIntegrity(books, authors, categories, bookAuthors, bookCategories) ==
    /\ \A r \in bookAuthors : (\E b \in books : b.id = r.bookId) /\ r.authorId \in authors
    /\ \A r \in bookCategories :
          (\E b \in books : b.id = r.bookId) /\ r.categoryId \in categories

\* C9: every BookAuthor row references an existing Book and Author, every
\* BookCategory row an existing Book and Category; a deleted book has no join
\* rows; deleting an Author or a Category removes exactly its own join rows and
\* no Book row.
C9_ReferentialIntegrity ==
    [][/\ RefIntegrity(Book', Author', Category', BookAuthor', BookCategory')
       /\ \A c \in Clients : (DeleteBookWrite(c) /\ response'.error = "none") =>
             /\ RowsOfBook(BookAuthor', req[c].id) = {}
             /\ RowsOfBook(BookCategory', req[c].id) = {}
       /\ \A a \in AuthorIds : DeleteAuthor(a) =>
             /\ Book' = Book /\ BookCategory' = BookCategory
             /\ BookAuthor' = {r \in BookAuthor : r.authorId # a}
       /\ \A k \in CategoryIds : DeleteCategory(k) =>
             /\ Book' = Book /\ BookAuthor' = BookAuthor
             /\ BookCategory' = {r \in BookCategory : r.categoryId # k}]_vars

\* The first author of a two-author book was deleted: the book and its second
\* author's row are still there.
C9_Witness ==
    /\ response.op = "deleteAuthor"
    /\ \E b \in Book : \E r \in BookAuthor :
          RowsOfBook(BookAuthor, b.id) = {r} /\ r.authorOrder = 2

C11_MissingIdNotFound ==
    [][\A c \in Clients :
         /\ \A id \in BookIds : FindUnique(id) = {} =>
               /\ GetBookById(c, id) =>
                     response' = Failure("get", "NotFoundError") /\ store' = store
               /\ UpdateBookCheck(c, id) =>
                     /\ response' = Failure("update", "NotFoundError")
                     /\ req'[c].pc = "idle" /\ store' = store
               /\ DeleteBookCheck(c, id) =>
                     /\ response' = Failure("delete", "NotFoundError")
                     /\ req'[c].pc = "idle" /\ store' = store
               /\ response' \in {Failure(op, "NotFoundError") : op \in {"get", "update", "delete"}}
                     => response'.status = 404
         /\ (req[c].pc = "update" /\ req'[c].pc = "idle" /\ FindUnique(req[c].id) = {}) =>
               Book' = Book]_vars

\* An update of an id that no row has was answered 404 while another Book exists.
C11_Witness ==
    /\ response = Failure("update", "NotFoundError") /\ response.status = 404
    /\ Book # {}

\* C12: for page >= 1, limit in 1..100 and total >= 0, the pagination of
\* getBooks has totalPages = ceil(total / limit), i.e. the least number of
\* pages of `limit` entries that hold `total` entries, hasNext = (page * limit
\* < total) and hasPrev = (page > 1).
C12_PaginationMath ==
    [][response'.op = "pagination" =>
         LET p == response'.body
             page == p.page
             limit == p.limit
             total == p.total
         IN (page >= 1 /\ limit \in 1..MaxLimit /\ total >= 0
               /\ GetBooksPagination(page, limit, total)) =>
               /\ p.totalPages >= 0
               /\ p.totalPages * limit >= total
               /\ (p.totalPages - 1) * limit < total
               /\ p.hasNext <=> (page * limit < total)
               /\ p.hasPrev <=> (page > 1)]_vars

\* limit = 20 and total = 45: three pages, and page 3 is the last one.
C12_Witness ==
    /\ response.op = "pagination"
    /\ response.body = [page |-> 3, limit |-> 20, total |-> 45, totalPages |-> 3,
                        hasNext |-> FALSE, hasPrev |-> TRUE]

\* C13: when no write falls between its two queries, getBooks(page, limit,
\* filters) returns the books at positions (page-1)*limit .. (page-1)*limit +
\* limit - 1 of a sequence of all the books that match the filters (title
\* contains search whatever the case, format equal, isActive equal when it is a
\* boolean) ordered by createdAt descending, at most limit books, and total is
\* the number of matching books.
C13_ListSlice ==
    [][\A c \in Clients :
         (req[c].pc = "list" /\ req'[c].pc = "idle" /\ req[c].seen = Book) =>
            LET o == req[c].opts
                matching == {b \in Book :
                               /\ o.search # <<>> => Contains(b.title, o.search)
                               /\ o.format # NULL => b.format = o.format
                               /\ o.isActive # <<>> => b.isActive = o.isActive[1]}
                skip == (o.page - 1) * o.limit
                r == response'.body
            IN /\ response'.op = "list" /\ response'.status = 200
               /\ Len(r.books) <= o.limit
               /\ r.pagination.total = Cardinality(matching)
               /\ \E s \in Perms(matching) :
                     /\ \A i, j \in DOMAIN s : i < j => s[i].createdAt >= s[j].createdAt
                     /\ \A i \in 1..o.limit :
                           IF skip + i <= Len(s)
                           THEN i <= Len(r.books) /\ r.books[i].id = s[skip + i].id
                           ELSE i > Len(r.books)]_vars

\* Page 2 of the whole catalog of three books, two to a page: the oldest book.
C13_Witness ==
    /\ response.op = "list" /\ response.status = 200
    /\ Len(response.body.books) = 1
    /\ response.body.pagination.page = 2 /\ response.body.pagination.total = 3
    /\ Cardinality(Book) = 3

\* page is absent or an integer >= 1, and limit is absent or an integer in
\* 1..100.
QueryInBounds(q) ==
    /\ q.page.kind = "absent" \/ (q.page.kind = "int" /\ q.page.n >= 1)
    /\ q.limit.kind = "absent" \/ (q.limit.kind = "int" /\ q.limit.n \in 1..MaxLimit)

\* C14: a GET /books request of an admin reaches the store with page >= 1 and
\* 1 <= limit <= 100 (1 and 20 when the key is absent); when page or limit is
\* out of these bounds the request is answered 400 and no query is issued.
C14_ListBounds ==
    [][\A c \in Clients, h \in Headers, q \in Queries, first \in {"find", "count"} :
         (ListBooks(c, h, q, first) /\ AuthenticateToken(h) = "next"
            /\ RequireAdmin(h) = "next") =>
            IF QueryInBounds(q)
            THEN /\ req'[c].pc = "list"
                 /\ req'[c].opts.page >= 1
                 /\ req'[c].opts.limit \in 1..MaxLimit
                 /\ q.page.kind = "absent" => req'[c].opts.page = DefaultPage
                 /\ q.limit.kind = "absent" => req'[c].opts.limit = DefaultLimit
            ELSE /\ response' = Failure("list", "ValidationError")
                 /\ response'.status = 400
                 /\ req' = req]_vars

----------------------------------------------------------------------------
(* Payloads that name averageRating and ratingsCount *)

\* Bodies of a create request: stockQuantity and the relation keys, with or
\* without the keys averageRating and ratingsCount.
CreateData ==
    [stockQuantity : StockValues, authorIds : {<<>>, <<"a1">>}, categoryIds : {<<>>},
     averageRating : {<<>>, <<5>>}, ratingsCount : {<<>>, <<9>>}]

\* Bodies of an update request with or without the keys averageRating and
\* ratingsCount.
RatingData ==
    [id : {<<>>}, isbn : {Absent}, isbn13 : {Absent}, stockQuantity : {<<>>, <<5>>},
     authorIds : {Absent}, categoryIds : {Absent},
     averageRating : {<<>>, <<5>>}, ratingsCount : {<<>>, <<9>>}]

\* Lines 15-37 of createBook: the destructuring takes the keys it names out of
\* bookData; a key it does not name goes nowhere.
CreateBookFrom(c, bookData) ==
    CreateBookInsert(c, bookData.stockQuantity, bookData.authorIds, bookData.categoryIds)

NextRatings ==
    \/ \E c \in Clients, isbn13 \in {NULL, "j1"} : CreateBookCheck(c, NULL, isbn13)
    \/ \E c \in Clients, bookData \in CreateData : CreateBookFrom(c, bookData)
    \/ \E c \in Clients, id \in BookIds : GetBookById(c, id)
    \/ \E c \in Clients, id \in BookIds : UpdateBookCheck(c, id)
    \/ \E c \in Clients, data \in RatingData : UpdateBookWrite(c, data)

\* One client creating and updating books with payloads that name the ratings.
SpecRatings == InitSerial /\ [][NextRatings]_vars

\* C19: whatever the payloads of createBook and updateBook carry, every Book
\* row keeps the averageRating and the ratingsCount the store assigned, 0.
C19_RatingsNotClientSettable ==
    \A b \in Book : b.averageRating = 0 /\ b.ratingsCount = 0

\* C20: every book that has a BookCategory row has exactly one BookCategory
\* row with isPrimary = true.
C20_OnePrimaryCategory ==
    \A b \in Book :
       (\E r \in BookCategory : r.bookId = b.id) =>
          Cardinality({r \in BookCategory : r.bookId = b.id /\ r.isPrimary}) = 1

----------------------------------------------------------------------------
(* C15, C16: the middleware in front of the controllers *)

\* C15: a create payload that fails a validation rule (isbn13 = "123") is
\* answered with one ValidationError, status 400, and neither the controller
\* nor the service runs: the request does not start and the store is unchanged.
C15_InvalidPayloadRejected ==
    [][\A c \in Clients, h \in Headers, isbn \in {NULL, "i1"}, isbn13 \in {NULL, "123"} :
          (/\ PostBook(c, h, isbn, isbn13)
           /\ h.kind = "valid" /\ h.role = "admin"
           /\ Validate(BookValidationErrors(isbn, isbn13)) # "next") =>
              /\ response' = Failure("create", "ValidationError")
              /\ response'.status = 400
              /\ UNCHANGED <<store, nextId, req>>]_vars

\* The outcome of a request the middleware has to refuse: the given error,
\* and nothing of the controller.
Refused(op, err, status) ==
    /\ response' = Failure(op, err)
    /\ response'.status = status
    /\ UNCHANGED <<store, nextId, req, deleted>>

\* What C16 asks of one request with header h on route op.
Guarded(h, op) ==
    /\ h.kind # "valid" => Refused(op, "UnauthorizedError", 401)
    /\ (h.kind = "valid" /\ h.role # "admin") => Refused(op, "ForbiddenError", 403)

\* C16: on every route the token is verified first, then the role is checked,
\* then the controller runs: without a valid token the answer is 401 whatever
\* role the token names, with a valid token of a non-admin it is 403, and in
\* both cases the controller has no effect.
C16_AuthBeforeController ==
    [][\A c \in Clients, h \in {x \in Headers : ~(x.kind = "valid" /\ x.role = "admin")} :
          /\ \A isbn \in {NULL, "i1"}, isbn13 \in {NULL, "123"} :
                PostBook(c, h, isbn, isbn13) => Guarded(h, "create")
          /\ \A id \in BookIds :
                /\ GetBook(c, h, id) => Guarded(h, "get")
                /\ PutBook(c, h, id) => Guarded(h, "update")
                /\ DeleteBook(c, h, id) => Guarded(h, "delete")]_vars

\* A delete refused for a non-admin while a book is stored.
C16_Witness ==
    /\ response = Failure("delete", "ForbiddenError")
    /\ Book # {}

----------------------------------------------------------------------------
(* The error classes and errorHandler *)

\* process.env.NODE_ENV; "unset" stands for undefined and for every value
\* other than the two the handler compares with.
Envs == {"production", "development", "unset"}

\* req.requestId; "" stands for a request without one.
RequestIds == {"", "r1", "r2"}

\* Texts of a failure the store or the runtime raises, and stack traces.
Messages == {"m1", "m2"}
Stacks == {"s1", "s2"}

\* class AppError: statusCode, code and isOperational = true.  The errors
\* property is <<>> when the object has none, else <<the list>>.
AppError(name, message, statusCode, code, errors, stack) ==
    [name |-> name, message |-> message, statusCode |-> statusCode, code |-> code,
     isOperational |-> TRUE, errors |-> errors, stack |-> stack]

ValidationError(errors, stack) ==
    AppError("ValidationError", "Validation failed", 400, "VALIDATION_ERROR", <<errors>>, stack)
NotFoundError(stack) ==
    AppError("NotFoundError", "Book with identifier '1' not found", 404, "NOT_FOUND", <<>>, stack)
ConflictError(message, stack) ==
    AppError("ConflictError", message, 409, "CONFLICT", <<>>, stack)
UnauthorizedError(message, stack) ==
    AppError("UnauthorizedError", message, 401, "UNAUTHORIZED", <<>>, stack)
ForbiddenError(message, stack) ==
    AppError("ForbiddenError", message, 403, "FORBIDDEN", <<>>, stack)

\* The typed failures the book routes raise.
TypedErrors ==
    UNION {{ValidationError(<<"isbn13">>, st),
            NotFoundError(st),
            ConflictError("A book with this ISBN already exists", st),
            UnauthorizedError("Token has expired", st),
            UnauthorizedError("Invalid token", st),
            ForbiddenError("Access denied. Required role: admin", st)} : st \in Stacks}

\* Failures that are no AppError: the known request errors of the Prisma
\* client, which carry a code of their own (unique index P2002, foreign key
\* P2003, row not found P2025), and a plain error of the runtime, which
\* carries none.  statusCode 0 and code "" stand for properties the object
\* does not have; both are falsy, as undefined is.
UntypedErrors ==
    [name : {"PrismaClientKnownRequestError"}, message : Messages, statusCode : {0},
     code : {"P2002", "P2003", "P2025"}, isOperational : {FALSE}, errors : {<<>>},
     stack : Stacks]
      \cup [name : {"TypeError"}, message : Messages, statusCode : {0},
            code : {""}, isOperational : {FALSE}, errors : {<<>>}, stack : Stacks]

\* A handler that replaces message and code of every failure in production.
HiddenAlways(env, err) == env = "production"

\* A handler that never replaces message and code.
HiddenNever(env, err) == FALSE

\* Lines 273-287: message and code are replaced when the failure is not
\* operational and NODE_ENV is "production".
Hidden(env, err) == ~err.isOperational /\ env = "production"

\* errorHandler: the status and the body of the answer.  Optional members of
\* the body are <<>> when left out.
ErrorHandler(env, err, requestId) ==
    LET statusCode == IF err.statusCode # 0 THEN err.statusCode ELSE 500
        message == IF Hidden(env, err) THEN "An unexpected error occurred"
                   ELSE IF err.message # "" THEN err.message ELSE "Internal Server Error"
        code == IF Hidden(env, err) THEN "INTERNAL_ERROR"
                ELSE IF err.code # "" THEN err.code ELSE "INTERNAL_ERROR"
    IN [status |-> statusCode,
        body |-> [success |-> FALSE,
                  error |-> [code |-> code,
                             message |-> message,
                             errors |-> err.errors,
                             stack |-> IF env = "development" THEN <<err.stack>> ELSE <<>>,
                             requestId |-> IF requestId # "" THEN <<requestId>> ELSE <<>>]]]

\* asyncHandler: a failure raised while the request is handled goes to next().
Throw(c, env, err, requestId) ==
    /\ req[c].pc = "idle"
    /\ req' = [req EXCEPT ![c] = [pc |-> "error", id |-> 0, isbn |-> NULL, isbn13 |-> NULL,
                                  env |-> env, err |-> err, requestId |-> requestId]]
    /\ UNCHANGED <<store, nextId, response, deleted>>

\* The error middleware answers the request.
ErrorMiddleware(c) ==
    /\ req[c].pc = "error"
    /\ LET r == ErrorHandler(req[c].env, req[c].err, req[c].requestId)
       IN response' = [op |-> "error", status |-> r.status, error |-> req[c].err.name,
                       body |-> r.body]
    /\ req' = [req EXCEPT ![c] = Idle]
    /\ UNCHANGED <<store, nextId, deleted>>

NextErrors ==
    \/ \E c \in Clients, env \in Envs, err \in TypedErrors \cup UntypedErrors,
          requestId \in RequestIds : Throw(c, env, err, requestId)
    \/ \E c \in Clients : ErrorMiddleware(c)

\* One client whose requests fail.
SpecErrors == InitSerial /\ [][NextErrors]_vars

----------------------------------------------------------------------------
(* C17, C18: the answers to failures *)

\* The status and the code string the taxonomy fixes for a kind of failure.
Taxonomy(name) ==
    CASE name = "ValidationError" -> <<400, "VALIDATION_ERROR">>
      [] name = "NotFoundError" -> <<404, "NOT_FOUND">>
      [] name = "ConflictError" -> <<409, "CONFLICT">>
      [] name = "UnauthorizedError" -> <<401, "UNAUTHORIZED">>
      [] name = "ForbiddenError" -> <<403, "FORBIDDEN">>
      [] OTHER -> <<500, "INTERNAL_ERROR">>

TypedNames ==
    {"ValidationError", "NotFoundError", "ConflictError", "UnauthorizedError", "ForbiddenError"}

\* A typed failure is answered with its fixed status and code, its own
\* message, and the errors list when it has one.
TypedAnswer(err) ==
    /\ response'.status = Taxonomy(err.name)[1]
    /\ response'.body.success = FALSE
    /\ response'.body.error.code = Taxonomy(err.name)[2]
    /\ response'.body.error.message = err.message
    /\ response'.body.error.errors = err.errors
    /\ err.name = "ValidationError" => response'.body.error.errors # <<>>

SameButText(e1, e2) ==
    [e1 EXCEPT !.message = "", !.stack = ""] = [e2 EXCEPT !.message = "", !.stack = ""]

\* The body of an answer without its requestId.
WithoutRequestId(body) == [body EXCEPT !.error.requestId = <<>>]

\* The answer just sent for an untyped failure has the generic message and is
\* the one every failure with another text would have got.
GenericAnswer(c) ==
    /\ response'.body.error.message = "An unexpected error occurred"
    /\ \A e2 \in UntypedErrors, requestId \in RequestIds :
          SameButText(req[c].err, e2) =>
             WithoutRequestId(ErrorHandler(req[c].env, e2, requestId).body)
                = WithoutRequestId(response'.body)

\* C18, as amended: when NODE_ENV is "production", the answer to a failure
\* that is not typed carries the generic message and does not depend on the
\* failure's message or stack.
C18_NoLeakInProduction ==
    [][\A c \in Clients :
          (ErrorMiddleware(c) /\ req[c].err.name \notin TypedNames
              /\ req[c].env = "production") => GenericAnswer(c)]_vars

\* C18, as stated: in every environment the answer to a failure that is not
\* typed carries the generic message and does not depend on the failure's
\* message or stack.
C18_AsStated ==
    [][\A c \in Clients :
          (ErrorMiddleware(c) /\ req[c].err.name \notin TypedNames) => GenericAnswer(c)]_vars

\* An untyped failure answered in production.
C18_Witness ==
    /\ response.op = "error"
    /\ response.error = "TypeError"
    /\ response.body.error.message = "An unexpected error occurred"

----------------------------------------------------------------------------
(* C21: a delete racing with a delete or an update of the same book *)

\* C21: a deleteBook or an updateBook that passed its existence check and
\* finds, at its write, that a concurrent deleteBook has removed the book, ends
\* in NotFoundError (404) and never in an untyped failure (500); a call whose
\* book is still there ends a delete in success.
C21_RaceEndsTyped ==
    [][\A c \in Clients :
          (/\ req[c].pc \in {"delete", "update"} /\ req'[c].pc = "idle"
           /\ response'.op = req[c].pc) =>
              IF FindUnique(req[c].id) = {}
              THEN response' = Failure(req[c].pc, "NotFoundError") /\ response'.status = 404
              ELSE req[c].pc = "delete" => response'.error = "none"]_vars

----------------------------------------------------------------------------
(* AuthService.login and the token it issues *)

\* Bodies of a login request: an email and, or not (NULL), a role key.
LoginPayloads ==
    [email : {"admin@bookzilla.com", "reader@bookzilla.com"},
     role : {NULL, "user", "admin"}]

\* generateJwtToken(payload): jwt.sign with the secret the verifier uses and no
\* options; the claims of the token are the keys of the payload, so its role
\* claim is the payload's role, or absent.
GenerateJwtToken(payload) == [kind |-> "valid", role |-> payload.role]

\* AuthService.login: any payload whose email is the admin's gets a token
\* signed over the payload as it came.
Login(c, payload) ==
    /\ req[c].pc = "idle"
    /\ IF payload.email # "admin@bookzilla.com"
       THEN response' = Failure("login", "UnauthorizedError")
       ELSE response' = Success("login", 200, [token |-> GenerateJwtToken(payload)])
    /\ UNCHANGED <<store, nextId, req, deleted>>

\* The holder of the token just issued sends it as the Bearer credential of a
\* request for a book.
GetBookWithToken(c, id) ==
    /\ response.op = "login" /\ response.error = "none"
    /\ GetBook(c, response.body.token, id)

\* The same, for a delete.
DeleteBookWithToken(c, id) ==
    /\ response.op = "login" /\ response.error = "none"
    /\ DeleteBook(c, response.body.token, id)

NextLogin ==
    \/ \E c \in Clients, payload \in LoginPayloads : Login(c, payload)
    \/ \E c \in Clients, id \in BookIds : GetBookWithToken(c, id)
    \/ \E c \in Clients, id \in BookIds : DeleteBookWithToken(c, id)
    \/ \E c \in Clients : DeleteBookWrite(c)
    \/ \E c \in Clients, isbn \in {NULL, "i1"} : CreateBookCheck(c, isbn, NULL)
    \/ \E c \in Clients, stock \in StockValues, rel \in FewRelations :
          CreateBookInsert(c, stock, rel[1], rel[2])

\* One client that logs in and presents its token on the book routes.
SpecLogin == InitSerial /\ [][NextLogin]_vars

\* C22: a token issued by a successful login, presented on a book route, passes
\* authenticateToken and requireAdmin: the request is answered by the
\* controller, never with 401 or 403.
C22_LoginTokenReachesBooks ==
    [][\A c \in Clients, id \in BookIds :
          (GetBookWithToken(c, id) \/ DeleteBookWithToken(c, id)) =>
             /\ AuthenticateToken(response.body.token) = "next"
             /\ RequireAdmin(response.body.token) = "next"
             /\ response'.status \notin {401, 403}]_vars
====
